---- MODULE Spec2Model ----
(***************************************************************************)
(* Sweet JS Compiler: the run controller, the debounce scheduler, the      *)
(* sandbox bridge with its message protocol, and the suggestion panel's    *)
(* hooks into the editor text (src/app.js, src/unnamed/part_000).          *)
(*                                                                         *)
(* Editor texts are TLA+ strings; TLC evaluates Len, SubSeq and \o on      *)
(* them, so trim, findToken, JSON.stringify and the HTML parser's search   *)
(* for the end of the script element are computed character by character. *)
(***************************************************************************)
EXTENDS Integers, Sequences, FiniteSets, TLC

---------------------------------------------------------------------------
(* Bounds of the model *)

\* Granularity of the clock, in ms: one Tick lets this much time pass.
TickMs == 300

\* A run is triggered only while at most this many sandbox messages are
\* still undelivered in the host's event queue.
MaxBacklog == 1

\* Clipboard writes that may be unsettled at a time
MaxCopies == 1

\* Timers of a blur of the editor that may be pending at a time
MaxBlurs == 1

---------------------------------------------------------------------------
(* Program constants *)

DEBOUNCE_MS == 600

STORAGE_KEY_CODE == "sweetjs_code_v1"

STORAGE_KEY_THEME == "sweetjs_theme_v1"

STORAGE_KEY_AC == "sweetjs_ac_v1"

\* debounceId when no debounce timer is pending
NoTimer == -1

---------------------------------------------------------------------------
(* Strings *)

Ch(s, i) == SubSeq(s, i, i)

UPPER == "ABCDEFGHIJKLMNOPQRSTUVWXYZ"

LOWER == "abcdefghijklmnopqrstuvwxyz"

DIGITS == "0123456789"

Chars(s) == {Ch(s, i) : i \in 1..Len(s)}

UpperSet == Chars(UPPER)

LowerSet == Chars(LOWER)

DigitSet == Chars(DIGITS)

LowerOf == [c \in UpperSet |-> Ch(LOWER, CHOOSE i \in 1..Len(UPPER) : Ch(UPPER, i) = c)]

LowerCh(c) == IF c \in UpperSet THEN LowerOf[c] ELSE c

RECURSIVE toLowerCase(_)
toLowerCase(s) ==
  IF s = "" THEN "" ELSE LowerCh(Ch(s, 1)) \o toLowerCase(SubSeq(s, 2, Len(s)))

UpperOf == [c \in LowerSet |-> Ch(UPPER, CHOOSE i \in 1..Len(LOWER) : Ch(LOWER, i) = c)]

UpperCh(c) == IF c \in LowerSet THEN UpperOf[c] ELSE c

RECURSIVE toUpperCase(_)
toUpperCase(s) ==
  IF s = "" THEN "" ELSE UpperCh(Ch(s, 1)) \o toUpperCase(SubSeq(s, 2, Len(s)))

\* String.prototype.includes
includes(s, t) ==
  \E i \in 1..(Len(s) - Len(t) + 1) : SubSeq(s, i, i + Len(t) - 1) = t

\* White space and line terminators, as String.prototype.trim strips them
IsSpace(c) == c \in {" ", "\t", "\n", "\r", "\f"}

RECURSIVE trimStart(_)
trimStart(s) ==
  IF s # "" /\ IsSpace(Ch(s, 1)) THEN trimStart(SubSeq(s, 2, Len(s))) ELSE s

RECURSIVE trimEnd(_)
trimEnd(s) ==
  IF s # "" /\ IsSpace(Ch(s, Len(s)))
    THEN trimEnd(SubSeq(s, 1, Len(s) - 1))
    ELSE s

Trimmed(s) == trimEnd(trimStart(s))

---------------------------------------------------------------------------
(* JavaScript values, as far as the sandbox script looks at them: the      *)
(* result of typeof, of String(v), of JSON.stringify(v, null, 2), and for  *)
(* a thrown value its truthiness, stack and message.  An empty stack or    *)
(* message stands for undefined.                                           *)

Value(ty, str, json, jsonThrows) ==
  [typeof |-> ty, str |-> str, json |-> json, jsonThrows |-> jsonThrows,
   truthy |-> TRUE, stack |-> "", message |-> ""]

ErrorValue(name, message) ==
  [typeof |-> "object", str |-> name \o ": " \o message, json |-> "{}",
   jsonThrows |-> FALSE, truthy |-> TRUE,
   stack |-> name \o ": " \o message \o "\n    at <anonymous>",
   message |-> message]

Undefined ==
  [typeof |-> "undefined", str |-> "undefined", json |-> "",
   jsonThrows |-> FALSE, truthy |-> FALSE, stack |-> "", message |-> ""]

StrHi == Value("string", "hi", "\"hi\"", FALSE)

StrT == Value("string", "t", "\"t\"", FALSE)

Num4 == Value("number", "4", "4", FALSE)

StrTag == Value("string", "</script>", "\"</script>\"", FALSE)

\* const a={}; a.a=a
Circular == Value("object", "[object Object]", "", TRUE)

\* what JSON.stringify throws on a circular structure
CircularError ==
  ErrorValue("TypeError", "Converting circular structure to JSON")

---------------------------------------------------------------------------
(* The editor texts of the model and what the JavaScript engine does with  *)
(* each as a function body: new Function(code) either throws a             *)
(* SyntaxError or yields a function whose call performs the statements.    *)

Console(k, args) == [op |-> "console", k |-> k, args |-> args]

SetTimeout(body) == [op |-> "setTimeout", body |-> body]

Throw(v) == [op |-> "throw", value |-> v]

Return(v) == [op |-> "return", value |-> v]

Compiles(body) == [syntaxError |-> FALSE, error |-> Undefined, body |-> body]

Malformed(e) == [syntaxError |-> TRUE, error |-> e, body |-> <<>>]

P_HI == "console.log('hi'); return 2+2"

P_MALFORMED == "("

P_TIMER == "setTimeout(()=>console.log('t'))"

P_TAG == "'</script>'"

P_PADDED == " setTimeout(()=>console.log('t'))\n"

P_CIRC_RET == "const a={};a.a=a;return a"

P_CIRC_LOG == "const a={};a.a=a;console.log(a)"

P_TOKEN == "JS"

P_BOOM == "throw new Error('boom')"

P_BLANK == " \n"

P_CHANNELS == "console.warn('hi', 4); console.info('t')"

P_LOG_THROW == "console.log('hi'); throw new Error('boom')"

P_TAG_THROW == "throw '</script>'"

P_ONE == "x"

P_NONE == "qz"

P_MANY == "Ma"

P_LOWER == "1js"

\* What a commit makes of P_MANY, by the item committed
ManyCommitted ==
  {"Math.max", "Math.min", "Math.round", "Math.floor", "Math.ceil",
   "Math.random", "Math.trunc", "Math.abs"}

Programs ==
  [t \in {P_HI, P_MALFORMED, P_TIMER, P_TAG, P_CIRC_RET, P_CIRC_LOG, P_TOKEN,
          P_BOOM, "JSON.parse", "JSON.stringify", P_ONE, P_NONE, P_MANY,
          P_LOWER, "1JSON.parse", "1JSON.stringify", P_CHANNELS, P_LOG_THROW,
          P_TAG_THROW, P_PADDED} \cup ManyCommitted |->
     CASE t = P_HI -> Compiles(<<Console("log", <<StrHi>>), Return(Num4)>>)
       [] t = P_MALFORMED ->
            Malformed(ErrorValue("SyntaxError", "Unexpected token '}'"))
       [] t \in {P_TIMER, P_PADDED} ->
            Compiles(<<SetTimeout(<<Console("log", <<StrT>>)>>)>>)
       [] t = P_TAG -> Compiles(<<>>)
       [] t = P_CIRC_RET -> Compiles(<<Return(Circular)>>)
       [] t = P_CIRC_LOG -> Compiles(<<Console("log", <<Circular>>)>>)
       [] t = P_BOOM -> Compiles(<<Throw(ErrorValue("Error", "boom"))>>)
       [] t = P_CHANNELS ->
            Compiles(<<Console("warn", <<StrHi, Num4>>), Console("info", <<StrT>>)>>)
       [] t = P_LOG_THROW ->
            Compiles(<<Console("log", <<StrHi>>), Throw(ErrorValue("Error", "boom"))>>)
       [] t = P_TAG_THROW -> Compiles(<<Throw(StrTag)>>)
       [] t = P_TOKEN ->
            Compiles(<<Throw(ErrorValue("ReferenceError", "JS is not defined"))>>)
       [] t = P_ONE ->
            Compiles(<<Throw(ErrorValue("ReferenceError", "x is not defined"))>>)
       [] t = P_NONE ->
            Compiles(<<Throw(ErrorValue("ReferenceError", "qz is not defined"))>>)
       [] t = P_MANY ->
            Compiles(<<Throw(ErrorValue("ReferenceError", "Ma is not defined"))>>)
       [] t \in {P_LOWER, "1JSON.parse", "1JSON.stringify"} ->
            Malformed(ErrorValue("SyntaxError", "Invalid or unexpected token"))
       [] OTHER -> Compiles(<<>>)]

\* The texts the editor can hold in this model: what is typed, what Clear
\* leaves and what a commit of a suggestion makes of them
KnownTexts ==
  {"", P_BLANK, P_HI, P_BOOM, P_MALFORMED, P_TIMER, P_TAG, P_CIRC_RET,
   P_CIRC_LOG, P_TOKEN, "JSON.parse", "JSON.stringify", P_ONE, P_NONE,
   P_MANY, P_LOWER, "1JSON.parse", "1JSON.stringify", P_CHANNELS,
   P_LOG_THROW, P_TAG_THROW, P_PADDED} \cup ManyCommitted

\* String.prototype.trim; its value on the known texts is computed once
TrimmedKnown == [t \in KnownTexts |-> Trimmed(t)]

trim(s) == IF s \in KnownTexts THEN TrimmedKnown[s] ELSE Trimmed(s)

---------------------------------------------------------------------------
(* The sandbox document that runCode builds, and what loading it does      *)

Msg(type, msg) == [type |-> type, msg |-> msg]

RECURSIVE join(_, _)
join(parts, sep) ==
  IF parts = <<>> THEN ""
  ELSE IF Len(parts) = 1 THEN parts[1]
  ELSE parts[1] \o sep \o join(Tail(parts), sep)

\* JSON.stringify of a string: the quoted literal with its escapes
EscapeCh(c) ==
  CASE c = "\"" -> "\\\""
    [] c = "\\" -> "\\\\"
    [] c = "\n" -> "\\n"
    [] c = "\r" -> "\\r"
    [] c = "\t" -> "\\t"
    [] c = "\f" -> "\\f"
    [] OTHER -> c

RECURSIVE Escape(_)
Escape(s) ==
  IF s = "" THEN "" ELSE EscapeCh(Ch(s, 1)) \o Escape(SubSeq(s, 2, Len(s)))

Quoted(s) == "\"" \o Escape(s) \o "\""

QuotedKnown == [t \in KnownTexts |-> Quoted(t)]

JSONstringify(s) == IF s \in KnownTexts THEN QuotedKnown[s] ELSE Quoted(s)

\* The srcdoc of the sandbox.  Everything but the argument of new Function
\* is fixed text, so the document is held as that argument: the string
\* literal that stands between "new Function(" and ");" in the script.
sandboxDoc(code) == JSONstringify(code)

\* The HTML parser ends the script element at the first "</script" that is
\* followed by white space, "/" or ">", wherever it stands in the script.
IsScriptEnd(doc, i) ==
  /\ Ch(doc, i) = "<"
  /\ i + 8 <= Len(doc)
  /\ toLowerCase(SubSeq(doc, i, i + 7)) = "</script"
  /\ Ch(doc, i + 8) \in {" ", "\t", "\n", "\r", "\f", "/", ">"}

ScriptCutAt(doc) ==
  IF \E i \in 1..Len(doc) : IsScriptEnd(doc, i)
    THEN (CHOOSE i \in 1..Len(doc) :
            IsScriptEnd(doc, i) /\ \A j \in 1..(i - 1) : ~IsScriptEnd(doc, j)) - 1
    ELSE Len(doc)

\* The script the sandbox gets to see of the literal
ScriptText(doc) == SubSeq(doc, 1, ScriptCutAt(doc))

\* The JavaScript parser on the literal: the position of its closing quote,
\* 0 when the literal is unterminated
RECURSIVE ClosingQuote(_, _)
ClosingQuote(lit, i) ==
  IF i > Len(lit) THEN 0
  ELSE IF Ch(lit, i) = "\\" THEN ClosingQuote(lit, i + 2)
  ELSE IF Ch(lit, i) = "\"" THEN i
  ELSE ClosingQuote(lit, i + 1)

UnescapeCh(c) ==
  CASE c = "n" -> "\n"
    [] c = "r" -> "\r"
    [] c = "t" -> "\t"
    [] c = "f" -> "\f"
    [] OTHER -> c

RECURSIVE Unescape(_)
Unescape(s) ==
  IF s = "" THEN ""
  ELSE IF Ch(s, 1) = "\\"
    THEN UnescapeCh(Ch(s, 2)) \o Unescape(SubSeq(s, 3, Len(s)))
    ELSE Ch(s, 1) \o Unescape(SubSeq(s, 2, Len(s)))

\* The value of the literal, the body handed to new Function
LiteralValue(lit) == Unescape(SubSeq(lit, 2, Len(lit) - 1))

\* console[k] of the shim: one argument
serializeArg(a) ==
  IF a.typeof = "object"
    THEN (IF a.jsonThrows THEN "[object]" ELSE a.json)
    ELSE a.str

\* console[k] of the shim: the message of one call
consoleShim(k, args) ==
  <<Msg(k, join([i \in 1..Len(args) |-> serializeArg(args[i])], " "))>>

\* send('error', e && (e.stack||e.message||String(e))); send('done','error')
catchBlock(e) ==
  <<Msg("error",
        IF ~e.truthy THEN e.str
        ELSE IF e.stack # "" THEN e.stack
        ELSE IF e.message # "" THEN e.message
        ELSE e.str),
    Msg("done", "error")>>

\* A call of the function made of the user's statements: the messages its
\* console calls send, the timers it sets, and how it ends
RECURSIVE callFn(_, _)
callFn(ops, acc) ==
  IF ops = <<>> THEN [acc EXCEPT !.outcome = "returned", !.value = Undefined]
  ELSE LET s == Head(ops) IN
    CASE s.op = "console" ->
           callFn(Tail(ops), [acc EXCEPT !.msgs = @ \o consoleShim(s.k, s.args)])
      [] s.op = "setTimeout" ->
           callFn(Tail(ops), [acc EXCEPT !.timers = Append(@, s.body)])
      [] s.op = "throw" -> [acc EXCEPT !.outcome = "threw", !.value = s.value]
      [] s.op = "return" -> [acc EXCEPT !.outcome = "returned", !.value = s.value]

Called(ops) ==
  callFn(ops, [msgs |-> <<>>, timers |-> <<>>, outcome |-> "", value |-> Undefined])

\* As afterCall, but done:ok is sent before the result
afterCall_DoneFirst(result) ==
  IF result # Undefined
    THEN <<Msg("done", "ok"),
           Msg("result", IF result.typeof = "object" THEN result.json ELSE result.str)>>
    ELSE <<Msg("done", "ok")>>

\* The lines after fn() in the try block: the result message and done:ok,
\* or the catch block when serializing the result throws
afterCall(result) ==
  IF result # Undefined
    THEN IF result.typeof = "object"
           THEN (IF result.jsonThrows
                   THEN catchBlock(CircularError)
                   ELSE <<Msg("result", result.json), Msg("done", "ok")>>)
           ELSE <<Msg("result", result.str), Msg("done", "ok")>>
    ELSE <<Msg("done", "ok")>>

\* try { const fn = new Function(code); const result = fn(); ... } catch ...
tryBlock(program) ==
  IF program.syntaxError
    THEN [msgs |-> catchBlock(program.error), timers |-> <<>>]
    ELSE LET r == Called(program.body) IN
      [msgs |-> r.msgs \o (IF r.outcome = "threw"
                             THEN catchBlock(r.value)
                             ELSE afterCall(r.value)),
       timers |-> r.timers]

\* Loading the document: a script cut short by the parser ends inside the
\* string literal, does not compile and does nothing
Loaded(doc) ==
  LET script == ScriptText(doc) IN
    IF ClosingQuote(script, 2) # Len(script)
      THEN [msgs |-> <<>>, timers |-> <<>>]
      ELSE tryBlock(Programs[LiteralValue(script)])

KnownDocs == {Quoted(t) : t \in KnownTexts \ {"", P_BLANK}}

LoadedKnown == [d \in KnownDocs |-> Loaded(d)]

loadDocument(doc) == IF doc \in KnownDocs THEN LoadedKnown[doc] ELSE Loaded(doc)

\* A timer callback of the user's code: an exception in it is uncaught and
\* ends the callback; timers it sets are added to the document's
timerCallback(body) == Called(body)

---------------------------------------------------------------------------
(* State *)

VARIABLES
  code,            \* els.code.value
  selectionStart,  \* els.code.selectionStart
  autorun,         \* els.autorun.checked
  acToggle,        \* els.acToggle.checked
  status,          \* els.status: [state, text]
  output,          \* els.output: the log lines, [type, msg] each
  lastRunCode,     \* the last-run snapshot
  debounceId,      \* ms until the pending debounce timer is due, or NoTimer
  localStorage,    \* key -> <<value>>, or <<>> when the key is absent
  acItems,         \* the values listed in els.acPanel; <<>> when hidden
  acActive,        \* the indices (from 0) of the items of the panel that
                   \* carry the class "active"
  srcdoc,          \* els.sandbox.srcdoc, see sandboxDoc; "" before any run
  navigating,      \* srcdoc was set and its document is not loaded yet
  theme,           \* "dark" when body has data-theme="dark", else "light"
  copying,         \* clipboard writes not settled yet, the text of each
  hiding,          \* timers set by a blur of the editor that have not fired
  docTimers,       \* callbacks the loaded sandbox document has pending
  inflight,        \* messages posted to the host and not yet handled
  \* history variables, read by no handler
  docInst,         \* "cur": the loaded document is the latest run's
  emitted,         \* what the latest run's document has posted so far
  recv,            \* what the host has handled of it
  lastRun,         \* what last started a run: "manual", "timer" or "none"
  sinceChange,     \* ms since the editor text last changed (up to DEBOUNCE_MS)
  lastEvent,       \* what last changed the text, or "run" after a manual run
  armed,           \* auto-run was enabled at the last change of the text
  arrived,         \* the messages, done excepted, handled since the output
                   \* log was last emptied
  prev             \* what the run before the latest left, see NoRepeat

ctl ==
  <<code, selectionStart, autorun, acToggle, status, output, lastRunCode,
    debounceId, localStorage, acItems, acActive, srcdoc, navigating, theme,
    copying, hiding>>

box == <<docTimers, inflight>>

hist ==
  <<docInst, emitted, recv, lastRun, sinceChange, lastEvent, armed, arrived,
    prev>>

vars == <<ctl, box, hist>>

\* The controller's state as one value, so that a handler is a function
S ==
  [code |-> code, selectionStart |-> selectionStart, autorun |-> autorun,
   acToggle |-> acToggle, status |-> status, output |-> output,
   lastRunCode |-> lastRunCode, debounceId |-> debounceId,
   localStorage |-> localStorage, acItems |-> acItems, acActive |-> acActive,
   srcdoc |-> srcdoc, navigating |-> navigating, theme |-> theme,
   copying |-> copying, hiding |-> hiding]

Becomes(s) ==
  \E r \in {s} :
    /\ code' = r.code
    /\ selectionStart' = r.selectionStart
    /\ autorun' = r.autorun
    /\ acToggle' = r.acToggle
    /\ status' = r.status
    /\ output' = r.output
    /\ lastRunCode' = r.lastRunCode
    /\ debounceId' = r.debounceId
    /\ localStorage' = r.localStorage
    /\ acItems' = r.acItems
    /\ acActive' = r.acActive
    /\ srcdoc' = r.srcdoc
    /\ navigating' = r.navigating
    /\ theme' = r.theme
    /\ copying' = r.copying
    /\ hiding' = r.hiding

---------------------------------------------------------------------------
(* The controller's functions *)

setStatus(s, state, text) ==
  [s EXCEPT !.status = [state |-> state, text |-> text]]

\* As appendLine, but a line equal to the last line of the log is dropped
appendLine_Dedup(s, type, msg) ==
  IF s.output # <<>> /\ s.output[Len(s.output)] = Msg(type, msg) THEN s
  ELSE [s EXCEPT !.output = Append(@, Msg(type, msg))]

appendLine(s, type, msg) == [s EXCEPT !.output = Append(@, Msg(type, msg))]

clearOutput(s) == [s EXCEPT !.output = <<>>]

\* As runCode, without the early return on blank text
runCode_NoBlankCheck(s) ==
  [setStatus(clearOutput(s), "running", "Running...")
     EXCEPT !.lastRunCode = s.code,
            !.srcdoc = sandboxDoc(s.code),
            !.navigating = TRUE]

\* As runCode, but the last-run snapshot is not recorded
runCode_NoSnapshot(s) ==
  IF trim(s.code) = ""
    THEN setStatus(s, "idle", "Nothing to run")
    ELSE [setStatus(clearOutput(s), "running", "Running...")
            EXCEPT !.srcdoc = sandboxDoc(s.code),
                   !.navigating = TRUE]

\* As runCode, but the snapshot is the trimmed text
runCode_TrimmedSnapshot(s) ==
  IF trim(s.code) = ""
    THEN setStatus(s, "idle", "Nothing to run")
    ELSE [setStatus(clearOutput(s), "running", "Running...")
            EXCEPT !.lastRunCode = trim(s.code),
                   !.srcdoc = sandboxDoc(s.code),
                   !.navigating = TRUE]

runCode(s) ==
  IF trim(s.code) = ""
    THEN setStatus(s, "idle", "Nothing to run")
    ELSE [setStatus(clearOutput(s), "running", "Running...")
            EXCEPT !.lastRunCode = s.code,
                   !.srcdoc = sandboxDoc(s.code),
                   !.navigating = TRUE]

\* As onMessage, but a done is ignored unless the status is running
onMessage_DoneWhileRunning(s, data) ==
  IF data.type = "" THEN s
  ELSE IF data.type = "done"
    THEN (IF s.status.state # "running" THEN s
          ELSE IF data.msg = "ok"
            THEN setStatus(s, "success", "Completed")
            ELSE setStatus(s, "error", "Error"))
    ELSE appendLine(s, data.type, data.msg)

\* As onMessage, but an error message also sets the status
onMessage_ErrorSetsStatus(s, data) ==
  IF data.type = "" THEN s
  ELSE IF data.type = "done"
    THEN (IF data.msg = "ok"
            THEN setStatus(s, "success", "Completed")
            ELSE setStatus(s, "error", "Error"))
    ELSE IF data.type = "error"
      THEN setStatus(appendLine(s, data.type, data.msg), "error", "Error")
      ELSE appendLine(s, data.type, data.msg)

\* The message listener; data without a type is ignored
onMessage(s, data) ==
  IF data.type = "" THEN s
  ELSE IF data.type = "done"
    THEN (IF data.msg = "ok"
            THEN setStatus(s, "success", "Completed")
            ELSE setStatus(s, "error", "Error"))
    ELSE appendLine(s, data.type, data.msg)

\* As scheduleAutoRun, but a pending timer is left to run out
scheduleAutoRun_NoRestart(s) ==
  IF ~s.autorun THEN s
  ELSE IF s.debounceId # NoTimer THEN s
  ELSE [s EXCEPT !.debounceId = DEBOUNCE_MS]

scheduleAutoRun(s) ==
  IF ~s.autorun THEN s ELSE [s EXCEPT !.debounceId = DEBOUNCE_MS]

\* As autoRunCallback, without the comparison with the last-run snapshot
autoRunCallback_Always(s) == runCode(s)

\* The callback scheduleAutoRun hands to setTimeout
autoRunCallback(s) == IF s.code # s.lastRunCode THEN runCode(s) ELSE s

\* As onClear, but the persisted text is left in the storage
onClear_KeepsStored(s) ==
  LET s1 == [s EXCEPT !.code = "", !.selectionStart = 0]
  IN setStatus(clearOutput(s1), "idle", "Cleared")

\* As onClear, but the last-run snapshot is emptied with the editor
onClear_ResetsSnapshot(s) ==
  LET s1 == [s EXCEPT !.code = "", !.selectionStart = 0, !.lastRunCode = ""]
      s2 == setStatus(clearOutput(s1), "idle", "Cleared")
  IN [s2 EXCEPT !.localStorage[STORAGE_KEY_CODE] = <<>>]

\* The click listener of the Clear button
onClear(s) ==
  LET s1 == [s EXCEPT !.code = "", !.selectionStart = 0]
      s2 == setStatus(clearOutput(s1), "idle", "Cleared")
  IN [s2 EXCEPT !.localStorage[STORAGE_KEY_CODE] = <<>>]

setTheme(s, mode) ==
  IF mode = "dark"
    THEN [s EXCEPT !.theme = "dark", !.localStorage[STORAGE_KEY_THEME] = <<"dark">>]
    ELSE [s EXCEPT !.theme = "light", !.localStorage[STORAGE_KEY_THEME] = <<"light">>]

\* The click listener of the theme button
onThemeClick(s) ==
  LET isDark == s.theme = "dark"
  IN setTheme(s, IF isDark THEN "light" ELSE "dark")

\* l.textContent of a line of the output log: the prefix and the body
textContent(l) == toUpperCase(l.type) \o l.msg

\* The click listener of the Copy button: the clipboard write it starts
onCopy(s) ==
  LET text == join([i \in 1..Len(s.output) |-> textContent(s.output[i])], "\n")
  IN [s EXCEPT !.copying = Append(@, text)]

\* The then and the catch of the clipboard write
onCopySettled(s, written) ==
  LET s1 == [s EXCEPT !.copying = Tail(@)]
  IN IF written THEN setStatus(s1, "success", "Copied")
     ELSE setStatus(s1, "error", "Copy failed")

JS_SUGGESTIONS ==
  <<
    "console.log", "console.info", "console.warn", "console.error",
    "console.table", "console.time", "console.timeEnd", "console.group",
    "console.groupEnd", "console.assert", "Math.max", "Math.min",
    "Math.round", "Math.floor", "Math.ceil", "Math.random", "Math.trunc",
    "Math.abs", "Math.sign", "Math.pow", "Math.sqrt", "Array.prototype.map",
    "Array.prototype.filter", "Array.prototype.reduce",
    "Array.prototype.forEach", "Array.prototype.find",
    "Array.prototype.findIndex", "Array.prototype.some",
    "Array.prototype.every", "Array.prototype.flat",
    "Array.prototype.flatMap", "Array.prototype.includes", "Array.from",
    "Array.isArray", "Array.of", "String.prototype.includes",
    "String.prototype.startsWith", "String.prototype.endsWith",
    "String.prototype.trim", "String.prototype.replace",
    "String.prototype.slice", "String.prototype.split",
    "String.prototype.toLowerCase", "String.prototype.toUpperCase",
    "String.prototype.padStart", "String.prototype.padEnd", "Object.keys",
    "Object.values", "Object.entries", "Object.assign", "Object.create",
    "Object.hasOwn", "Object.freeze", "Object.seal", "JSON.parse",
    "JSON.stringify", "Date.now", "new Date", "performance.now",
    "setTimeout", "setInterval", "clearTimeout", "clearInterval",
    "requestAnimationFrame", "cancelAnimationFrame", "Promise.resolve",
    "Promise.reject", "Promise.all", "Promise.allSettled", "Promise.race",
    "Promise.any", "async function", "await", "document.querySelector",
    "document.querySelectorAll", "document.getElementById",
    "document.createElement", "document.createTextNode",
    "document.body.appendChild", "Element.classList.add",
    "Element.classList.remove", "Element.classList.toggle",
    "Element.addEventListener", "Node.removeChild", "fetch", "Headers",
    "Request", "Response", "localStorage.getItem", "localStorage.setItem",
    "localStorage.removeItem", "sessionStorage.getItem",
    "sessionStorage.setItem", "isNaN", "isFinite", "parseInt", "parseFloat",
    "encodeURI", "decodeURI", "encodeURIComponent", "decodeURIComponent",
    "structuredClone", "Error", "TypeError", "RangeError", "SyntaxError"
  >>

IsTokenStart(c) == c \in UpperSet \/ c \in LowerSet \/ c \in {"_", "$"}

IsTokenPart(c) == IsTokenStart(c) \/ c \in DigitSet \/ c = "."

\* The start of the longest run of token characters that ends at i
RECURSIVE RunStart(_, _)
RunStart(s, i) ==
  IF i >= 1 /\ IsTokenPart(Ch(s, i)) THEN RunStart(s, i - 1) ELSE i + 1

\* The first position from i on that can start a token, Len(s) + 1 if none
RECURSIVE FirstStart(_, _)
FirstStart(s, i) ==
  IF i <= Len(s) /\ ~IsTokenStart(Ch(s, i)) THEN FirstStart(s, i + 1) ELSE i

\* upTo.match(/[A-Za-z_$][\w.$]*$/): the leftmost match is the one that
\* starts at the first start character of the run of token characters
\* that ends at the caret
findToken(text, pos) ==
  LET upTo == SubSeq(text, 1, pos)
  IN SubSeq(upTo, FirstStart(upTo, RunStart(upTo, Len(upTo))), Len(upTo))

hideAutocomplete(s) == [s EXCEPT !.acItems = <<>>, !.acActive = {}]

\* As showAutocomplete, but every item is listed
showAutocomplete_All(s, items) ==
  IF items = <<>> THEN hideAutocomplete(s)
  ELSE [s EXCEPT !.acItems = items, !.acActive = {0}]

showAutocomplete(s, items) ==
  IF items = <<>> THEN hideAutocomplete(s)
  ELSE [s EXCEPT !.acItems = SubSeq(items, 1, IF Len(items) < 8 THEN Len(items) ELSE 8),
                 !.acActive = {0}]

commitAutocomplete(s, value) ==
  LET pos == s.selectionStart
      token == findToken(s.code, pos)
      start == pos - Len(token)
      before == SubSeq(s.code, 1, start)
      after == SubSeq(s.code, pos + 1, Len(s.code))
      text == before \o value \o after
      s1 == [s EXCEPT !.code = text,
                      !.selectionStart = Len(before) + Len(value),
                      !.localStorage[STORAGE_KEY_CODE] = <<text>>]
  IN hideAutocomplete(s1)

\* s.toLowerCase() of every entry of a list
Lowered(list) == [i \in 1..Len(list) |-> toLowerCase(list[i])]

LoweredSuggestions == Lowered(JS_SUGGESTIONS)

\* JS_SUGGESTIONS.filter((s) => s.toLowerCase().includes(token.toLowerCase())):
\* the entries that contain the token, case-insensitively, in their order
filter(list, lowered, token) ==
  LET t == toLowerCase(token)
      hits == {i \in 1..Len(list) : includes(lowered[i], t)}
  IN [k \in 1..Cardinality(hits) |->
        list[CHOOSE i \in hits : Cardinality({j \in hits : j <= i}) = k]]

\* The tokens that end the known texts, and the entries that match each,
\* computed once
KnownTokens == {findToken(t, Len(t)) : t \in KnownTexts}

FilteredKnown ==
  [k \in KnownTokens |-> filter(JS_SUGGESTIONS, LoweredSuggestions, k)]

suggestions(token) ==
  IF token \in KnownTokens THEN FilteredKnown[token]
  ELSE filter(JS_SUGGESTIONS, LoweredSuggestions, token)

handleAutocomplete(s) ==
  IF ~s.acToggle THEN hideAutocomplete(s)
  ELSE LET token == findToken(s.code, s.selectionStart) IN
    IF token = "" \/ Len(token) < 2 THEN hideAutocomplete(s)
    ELSE showAutocomplete(s, suggestions(token))

\* The change listener of the autocomplete checkbox, after the browser
\* has ticked or unticked it
onAcToggleChange(s, checked) ==
  LET s1 == [s EXCEPT !.acToggle = checked]
      s2 == [s1 EXCEPT !.localStorage[STORAGE_KEY_AC] =
                         <<IF s1.acToggle THEN "on" ELSE "off">>]
  IN hideAutocomplete(s2)

\* The two input listeners of the editor, in the order they were added,
\* after the browser has put the event's text and caret into the editor
onInput(s, value, caret) ==
  LET s1 == [s EXCEPT !.code = value, !.selectionStart = caret]
      s2 == [s1 EXCEPT !.localStorage[STORAGE_KEY_CODE] = <<s1.code>>]
  IN handleAutocomplete(scheduleAutoRun(s2))

\* items.findIndex((i) => i.classList.contains("active"))
findIndex(s) ==
  IF s.acActive = {} THEN -1
  ELSE CHOOSE i \in s.acActive : \A j \in s.acActive : i <= j

\* Math.min(items.length - 1, idx + 1)
nextIndex(s) ==
  LET idx == findIndex(s) IN
    IF Len(s.acItems) - 1 < idx + 1 THEN Len(s.acItems) - 1 ELSE idx + 1

\* Math.max(0, idx - 1)
prevIndex(s) == LET idx == findIndex(s) IN IF 0 > idx - 1 THEN 0 ELSE idx - 1

\* As onKeydown, but the arrow keys leave the class on the items that
\* carry it
onKeydown_KeepsActive(s, key) ==
  IF s.acItems = <<>> THEN s
  ELSE CASE key = "ArrowDown" ->
              [s EXCEPT !.acActive = s.acActive \cup {nextIndex(s)}]
         [] key = "ArrowUp" ->
              [s EXCEPT !.acActive = s.acActive \cup {prevIndex(s)}]
         [] key \in {"Enter", "Tab"} ->
              LET idx == findIndex(s)
              IN commitAutocomplete(s, s.acItems[(IF idx >= 0 THEN idx ELSE 0) + 1])
         [] key = "Escape" -> hideAutocomplete(s)
         [] OTHER -> s

\* The keydown listener of the editor
onKeydown(s, key) ==
  IF s.acItems = <<>> THEN s
  ELSE CASE key = "ArrowDown" -> [s EXCEPT !.acActive = {nextIndex(s)}]
         [] key = "ArrowUp" -> [s EXCEPT !.acActive = {prevIndex(s)}]
         [] key \in {"Enter", "Tab"} ->
              LET idx == findIndex(s)
              IN commitAutocomplete(s, s.acItems[(IF idx >= 0 THEN idx ELSE 0) + 1])
         [] key = "Escape" -> hideAutocomplete(s)
         [] OTHER -> s

\* The keydown listener of the editor on Enter or Tab
onCommitKey(s) == onKeydown(s, "Enter")

\* The blur listener of the editor: setTimeout(hideAutocomplete, 100)
onBlur(s) == [s EXCEPT !.hiding = s.hiding + 1]

\* The callback the blur listener hands to setTimeout
blurCallback(s) == hideAutocomplete([s EXCEPT !.hiding = s.hiding - 1])

\* Ctrl+Enter or Meta+Enter: the editor's keydown listener when the editor
\* has the focus, then the window's
onRunShortcut(s, editorFocused) ==
  runCode(IF editorFocused THEN onCommitKey(s) ELSE s)

---------------------------------------------------------------------------
(* Initial state: the page as loaded with nothing persisted *)

\* What the user's typing and pasting can make of the editor: the text and
\* the caret an input event leaves behind
Typed(texts) == {[value |-> t, caret |-> Len(t)] : t \in texts}

\* The texts typed where the claims are about editing and the debounce
EditEvents == Typed({P_TOKEN, P_BLANK, P_PADDED})

\* The texts typed where the claims are about what a run sends
ProgramEvents ==
  Typed({P_HI, P_BOOM, P_MALFORMED, P_TIMER, P_TAG, P_CIRC_RET, P_CIRC_LOG,
         P_CHANNELS, P_LOG_THROW, P_TAG_THROW})

\* The latest run did not repeat, by hand and on the same text, a run whose
\* messages had all been handled
NoRepeat == [repeat |-> FALSE, recv |-> <<>>, status |-> <<>>, output |-> <<>>]

\* localStorage with no entry
NoStorage ==
  [k \in {STORAGE_KEY_CODE, STORAGE_KEY_THEME, STORAGE_KEY_AC} |-> <<>>]

\* The controls and the module variables of a page that has just been
\* parsed, before the script reads the storage
pageParsed(storage) ==
  [code |-> "", selectionStart |-> 0, autorun |-> FALSE, acToggle |-> TRUE,
   status |-> [state |-> "", text |-> ""], output |-> <<>>,
   lastRunCode |-> "", debounceId |-> NoTimer, localStorage |-> storage,
   acItems |-> <<>>, acActive |-> {}, srcdoc |-> "", navigating |-> FALSE,
   theme |-> "light", copying |-> <<>>, hiding |-> 0]

\* initState, and the initial status set at the end of the script
initState(s) ==
  LET savedCode == s.localStorage[STORAGE_KEY_CODE]
      savedTheme == s.localStorage[STORAGE_KEY_THEME]
      ac == s.localStorage[STORAGE_KEY_AC]
      s1 == IF savedCode # <<>> /\ savedCode[1] # ""
              THEN [s EXCEPT !.code = savedCode[1],
                             !.selectionStart = Len(savedCode[1])]
              ELSE s
      s2 == IF savedTheme = <<"dark">> THEN setTheme(s1, "dark") ELSE s1
      s3 == IF ac # <<>> THEN [s2 EXCEPT !.acToggle = (ac[1] = "on")] ELSE s2
  IN setStatus(s3, "idle", "Idle")

\* The texts typed where the claims are about the suggestion panel, and
\* an event that leaves the caret inside a word
AcEvents ==
  Typed({P_TOKEN, P_ONE, P_NONE, P_MANY, P_LOWER, P_BLANK})
    \cup {[value |-> "JSON.parse", caret |-> 2]}

\* The texts typed where the claims are about the page: the status line,
\* the storage and a reload
PageEvents == Typed({"", P_BLANK, P_TOKEN})

Init ==
  /\ code = ""
  /\ selectionStart = 0
  /\ autorun = FALSE
  /\ acToggle = TRUE
  /\ status = [state |-> "idle", text |-> "Idle"]
  /\ output = <<>>
  /\ lastRunCode = ""
  /\ debounceId = NoTimer
  /\ localStorage = NoStorage
  /\ acItems = <<>>
  /\ acActive = {}
  /\ srcdoc = ""
  /\ navigating = FALSE
  /\ theme = "light"
  /\ copying = <<>>
  /\ hiding = 0
  /\ docTimers = <<>>
  /\ inflight = <<>>
  /\ docInst = "cur"
  /\ emitted = <<>>
  /\ recv = <<>>
  /\ lastRun = "none"
  /\ sinceChange = DEBOUNCE_MS
  /\ lastEvent = "none"
  /\ armed = FALSE
  /\ arrived = <<>>
  /\ prev = NoRepeat

---------------------------------------------------------------------------
(* Actions *)

Min(a, b) == IF a < b THEN a ELSE b

Max(a, b) == IF a > b THEN a ELSE b

\* runCode went past its early return on text t
Starts(t) == trim(t) # ""

Superseded(q) == [i \in 1..Len(q) |-> [q[i] EXCEPT !.inst = "old"]]

\* The sandbox is at rest: its document has loaded, no timer of it is
\* pending and every message posted has been handled
Quiet == ~navigating /\ docTimers = <<>> /\ inflight = <<>>

\* What a call of runCode on text t means for the history variables
RunHistory(t, trigger) ==
  IF Starts(t)
    THEN /\ inflight' = Superseded(inflight)
         /\ docInst' = "old"
         /\ emitted' = <<>>
         /\ recv' = <<>>
         /\ lastRun' = trigger
         /\ arrived' = <<>>
         /\ prev' = IF /\ trigger = "manual" /\ lastRun = "manual"
                       /\ lastEvent = "run" /\ t = lastRunCode /\ Quiet
                      THEN [repeat |-> TRUE, recv |-> recv, status |-> status,
                            output |-> output]
                      ELSE NoRepeat
    ELSE UNCHANGED <<inflight, docInst, emitted, recv, lastRun, arrived, prev>>

CanTrigger == Len(inflight) <= MaxBacklog

\* An input event of the editor
Input(e) ==
  /\ Becomes(onInput(S, e.value, e.caret))
  /\ sinceChange' = 0
  /\ lastEvent' = "input"
  /\ armed' = autorun
  /\ UNCHANGED <<box, docInst, emitted, recv, lastRun, arrived, prev>>

\* Time passes
Tick ==
  /\ debounceId' = IF debounceId = NoTimer THEN NoTimer
                   ELSE Max(0, debounceId - TickMs)
  /\ sinceChange' = Min(DEBOUNCE_MS, sinceChange + TickMs)
  /\ debounceId' # debounceId \/ sinceChange' # sinceChange
  /\ UNCHANGED <<code, selectionStart, autorun, acToggle, status, output,
                 lastRunCode, localStorage, acItems, acActive, srcdoc,
                 navigating, theme, copying, hiding, box, docInst, emitted,
                 recv, lastRun, lastEvent, armed, arrived, prev>>

\* The debounce timer fires
DebounceFire ==
  /\ debounceId = 0
  /\ CanTrigger
  /\ Becomes(autoRunCallback([S EXCEPT !.debounceId = NoTimer]))
  /\ IF code # lastRunCode
       THEN RunHistory(code, "timer")
       ELSE UNCHANGED <<inflight, docInst, emitted, recv, lastRun, arrived, prev>>
  /\ UNCHANGED <<docTimers, sinceChange, lastEvent, armed>>

\* A click on Run
RunClick ==
  /\ CanTrigger
  /\ Becomes(runCode(S))
  /\ RunHistory(code, "manual")
  /\ lastEvent' = IF Starts(code) THEN "run" ELSE lastEvent
  /\ UNCHANGED <<docTimers, sinceChange, armed>>

\* Ctrl+Enter or Meta+Enter
RunShortcut(editorFocused) ==
  LET commits == editorFocused /\ acItems # <<>>
      text == onCommitKey(S).code
  IN /\ CanTrigger
     /\ Becomes(onRunShortcut(S, editorFocused))
     /\ RunHistory(IF commits THEN text ELSE code, "manual")
     /\ lastEvent' = IF Starts(IF commits THEN text ELSE code) THEN "run"
                     ELSE IF commits THEN "commit" ELSE lastEvent
     /\ sinceChange' = IF commits THEN 0 ELSE sinceChange
     /\ armed' = IF commits THEN autorun ELSE armed
     /\ UNCHANGED docTimers

\* A click on Clear, or Alt+C, which clicks it
ClearClick ==
  /\ Becomes(onClear(S))
  /\ sinceChange' = 0
  /\ lastEvent' = "clear"
  /\ armed' = autorun
  /\ arrived' = <<>>
  /\ UNCHANGED <<box, docInst, emitted, recv, lastRun, prev>>

\* The auto-run checkbox is ticked or unticked; nothing listens to it
AutorunToggle ==
  /\ autorun' = ~autorun
  /\ UNCHANGED <<code, selectionStart, acToggle, status, output, lastRunCode,
                 debounceId, localStorage, acItems, acActive, srcdoc,
                 navigating, theme, copying, hiding, box, hist>>

CommitHistory ==
  /\ sinceChange' = 0
  /\ lastEvent' = "commit"
  /\ armed' = autorun
  /\ UNCHANGED <<box, docInst, emitted, recv, lastRun, arrived, prev>>

\* Enter or Tab in the editor while the panel is shown
CommitKey ==
  /\ acItems # <<>>
  /\ Becomes(onCommitKey(S))
  /\ CommitHistory

\* mousedown on an item of the panel
CommitMouse(i) ==
  /\ i \in 1..Len(acItems)
  /\ Becomes(commitAutocomplete(S, acItems[i]))
  /\ CommitHistory

\* ArrowDown, ArrowUp or Escape in the editor while the panel is shown
NavKey(key) ==
  /\ acItems # <<>>
  /\ Becomes(onKeydown(S, key))
  /\ UNCHANGED <<box, hist>>

\* The caret is moved, by a click in the editor or by a key the keydown
\* listener has no branch for
CaretMove ==
  \E p \in 0..Len(code) :
    /\ p # selectionStart
    /\ Becomes([onKeydown(S, "ArrowLeft") EXCEPT !.selectionStart = p])
    /\ UNCHANGED <<box, hist>>

\* The editor loses the focus
Blur ==
  /\ hiding < MaxBlurs
  /\ Becomes(onBlur(S))
  /\ UNCHANGED <<box, hist>>

\* A timer set by a blur fires
BlurTimer ==
  /\ hiding > 0
  /\ Becomes(blurCallback(S))
  /\ UNCHANGED <<box, hist>>

\* A click on the theme button
ThemeClick ==
  /\ Becomes(onThemeClick(S))
  /\ UNCHANGED <<box, hist>>

\* A click on Copy
CopyClick ==
  /\ Len(copying) < MaxCopies
  /\ Becomes(onCopy(S))
  /\ UNCHANGED <<box, hist>>

\* The clipboard write succeeds or is refused
CopySettled(written) ==
  /\ copying # <<>>
  /\ Becomes(onCopySettled(S, written))
  /\ UNCHANGED <<box, hist>>

\* The autocomplete checkbox is ticked or unticked
AcToggleChange ==
  /\ Becomes(onAcToggleChange(S, ~acToggle))
  /\ UNCHANGED <<box, hist>>

\* The page is reloaded: the document, its timers, its sandbox and the
\* messages on their way are gone, localStorage stays
Reload ==
  /\ Becomes(initState(pageParsed(localStorage)))
  /\ docTimers' = <<>>
  /\ inflight' = <<>>
  /\ docInst' = "cur"
  /\ emitted' = <<>>
  /\ recv' = <<>>
  /\ lastRun' = "none"
  /\ sinceChange' = DEBOUNCE_MS
  /\ lastEvent' = "none"
  /\ armed' = FALSE
  /\ arrived' = <<>>
  /\ prev' = NoRepeat

Post(msgs, inst, phase) ==
  [i \in 1..Len(msgs) |->
     [type |-> msgs[i].type, msg |-> msgs[i].msg, inst |-> inst, phase |-> phase]]

History(posted) ==
  [i \in 1..Len(posted) |->
     [type |-> posted[i].type, msg |-> posted[i].msg, phase |-> posted[i].phase]]

\* The sandbox loads the document of its srcdoc: the document it held is
\* discarded with its timers, and the new one's script runs to its end
SandboxLoad ==
  /\ navigating
  /\ LET r == loadDocument(srcdoc)
         posted == Post(r.msgs, "cur", "sync")
     IN /\ inflight' = inflight \o posted
        /\ docTimers' = r.timers
        /\ emitted' = History(posted)
  /\ navigating' = FALSE
  /\ docInst' = "cur"
  /\ UNCHANGED <<code, selectionStart, autorun, acToggle, status, output,
                 lastRunCode, debounceId, localStorage, acItems, acActive,
                 srcdoc, theme, copying, hiding, recv, lastRun, sinceChange,
                 lastEvent, armed, arrived, prev>>

\* A timer of the user's code fires in the loaded document
SandboxTimer ==
  /\ docTimers # <<>>
  /\ LET r == timerCallback(Head(docTimers))
         posted == Post(r.msgs, docInst, "timer")
     IN /\ inflight' = inflight \o posted
        /\ docTimers' = Tail(docTimers) \o r.timers
        /\ emitted' = IF docInst = "cur" THEN emitted \o History(posted)
                      ELSE emitted
  /\ UNCHANGED <<ctl, docInst, recv, lastRun, sinceChange, lastEvent, armed,
                 arrived, prev>>

\* The host handles the next message event
Deliver ==
  /\ inflight # <<>>
  /\ LET ev == Head(inflight) IN
       /\ Becomes(onMessage(S, [type |-> ev.type, msg |-> ev.msg]))
       /\ recv' = IF ev.inst = "cur" THEN recv \o History(<<ev>>) ELSE recv
       /\ arrived' = IF ev.type # "done" THEN Append(arrived, Msg(ev.type, ev.msg))
                     ELSE arrived
  /\ inflight' = Tail(inflight)
  /\ UNCHANGED <<docTimers, docInst, emitted, lastRun, sinceChange, lastEvent,
                 armed, prev>>

Next ==
  \/ \E e \in EditEvents : Input(e)
  \/ Tick
  \/ DebounceFire
  \/ RunClick
  \/ \E f \in BOOLEAN : RunShortcut(f)
  \/ ClearClick
  \/ AutorunToggle
  \/ CommitKey
  \/ \E i \in 1..8 : CommitMouse(i)
  \/ SandboxLoad
  \/ SandboxTimer
  \/ Deliver

Spec == Init /\ [][Next]_vars

\* The user types or pastes a program and runs it by hand, auto-run off
NextRuns ==
  \/ \E e \in ProgramEvents : Input(e)
  \/ RunClick
  \/ ClearClick
  \/ SandboxLoad
  \/ SandboxTimer
  \/ Deliver

SpecRuns == Init /\ [][NextRuns]_vars

\* The user edits with the suggestion panel
NextAc ==
  \/ \E e \in AcEvents : Input(e)
  \/ AcToggleChange
  \/ \E key \in {"ArrowDown", "ArrowUp", "Escape"} : NavKey(key)
  \/ CaretMove
  \/ CommitKey
  \/ \E i \in 1..8 : CommitMouse(i)
  \/ Blur
  \/ BlurTimer
  \/ ClearClick

SpecAc == Init /\ [][NextAc]_vars

\* The user edits, runs by hand, copies the output, switches the theme
\* and the autocomplete option, and reloads the page
NextPage ==
  \/ \E e \in PageEvents : Input(e)
  \/ ClearClick
  \/ CommitKey
  \/ ThemeClick
  \/ AcToggleChange
  \/ CopyClick
  \/ \E written \in BOOLEAN : CopySettled(written)
  \/ RunClick
  \/ SandboxLoad
  \/ Deliver
  \/ Reload

SpecPage == Init /\ [][NextPage]_vars

\* The texts typed where the claim is about what happens once the user
\* has stopped
LiveEvents == Typed({P_TOKEN, P_BLANK})

\* What the user does in SpecLive
UserAction ==
  \/ \E e \in LiveEvents : Input(e)
  \/ CommitKey
  \/ AutorunToggle

\* The user edits with auto-run and then leaves the page alone
NextLive ==
  \/ UserAction
  \/ Tick
  \/ DebounceFire
  \/ SandboxLoad
  \/ Deliver

\* The browser's event loop: time passes, a timer that is due fires, a
\* navigation that was started completes, a message that was posted is
\* handled
Scheduling ==
  /\ WF_vars(Tick)
  /\ WF_vars(DebounceFire)
  /\ WF_vars(SandboxLoad)
  /\ WF_vars(Deliver)

SpecLive == Init /\ [][NextLive]_vars /\ Scheduling

---------------------------------------------------------------------------
(* Claims about what a run sends (SpecRuns) *)

\* The latest run's document has loaded, has run to its end with no timer
\* left, and the host has handled every message it posted
RunComplete ==
  /\ srcdoc # ""
  /\ ~navigating
  /\ docInst = "cur"
  /\ docTimers = <<>>
  /\ \A i \in 1..Len(inflight) : inflight[i].inst # "cur"

DonesOf(q) == {i \in 1..Len(q) : q[i].type = "done"}

\* C1: a run that is not superseded delivers exactly one done message, and
\* that done is the last message of the run, whatever the text was.
C1_OneDoneLast ==
  RunComplete =>
    /\ Cardinality(DonesOf(recv)) = 1
    /\ recv[Len(recv)].type = "done"

IsPrefix(a, b) == Len(a) <= Len(b) /\ a = SubSeq(b, 1, Len(a))

HandlesSuperseded ==
  /\ inflight # <<>>
  /\ Head(inflight).inst = "old"
  /\ inflight' = Tail(inflight)

\* C3: no message of a superseded instance is appended to the output log or
\* changes the run status.
C3_SupersededIgnored ==
  [][HandlesSuperseded => output' = output /\ status' = status]_vars

\* The code of the latest run runs to its end without throwing
CompletesWithoutThrowing ==
  /\ lastRunCode \in DOMAIN Programs
  /\ ~Programs[lastRunCode].syntaxError
  /\ Called(Programs[lastRunCode].body).outcome = "returned"

\* C10: a run whose code completes without throwing ends with done:ok, also
\* when its return value or a logged argument cannot be serialized.
C10_SerializationNeverFails ==
  CompletesWithoutThrowing =>
    \A i \in 1..Len(recv) : recv[i].type = "done" => recv[i].msg = "ok"

\* The messages of a run as handled, kind and payload
Handled == [i \in 1..Len(recv) |-> Msg(recv[i].type, recv[i].msg)]

\* The console calls of the code in call order, those of its timer
\* callbacks after those of the call that set the timers
RECURSIVE ConsoleCalls(_)
ConsoleCalls(timers) ==
  IF timers = <<>> THEN <<>>
  ELSE LET r == Called(Head(timers))
       IN r.msgs \o ConsoleCalls(Tail(timers) \o r.timers)

\* A value as the protocol serializes it: structured values structurally,
\* with the placeholder when that fails, primitives as strings
Serialized(v) ==
  IF v.typeof = "object" THEN (IF v.jsonThrows THEN "[object]" ELSE v.json)
  ELSE v.str

\* C12: when the code completes without throwing, the messages of the run
\* are one message per console call in call order, then one result message
\* if and only if the returned value is not undefined, then done:ok.
C12_SuccessSequence ==
  RunComplete /\ CompletesWithoutThrowing =>
    LET body == Programs[lastRunCode].body
        value == Called(body).value
    IN Handled = ConsoleCalls(<<body>>)
                   \o (IF value # Undefined
                         THEN <<Msg("result", Serialized(value))>> ELSE <<>>)
                   \o <<Msg("done", "ok")>>

\* The code of the latest run does not compile, or throws when called
FailsToComplete ==
  /\ lastRunCode \in DOMAIN Programs
  /\ \/ Programs[lastRunCode].syntaxError
     \/ Called(Programs[lastRunCode].body).outcome = "threw"

\* What was thrown: by new Function, or by the call
Thrown ==
  IF Programs[lastRunCode].syntaxError THEN Programs[lastRunCode].error
  ELSE Called(Programs[lastRunCode].body).value

\* C13: when the code throws or does not compile, the messages of the run
\* are those of the console calls made before the failure, then one error
\* message that carries the diagnostic text, then done:error; there is no
\* result message and no done:ok.
C13_FailureSequence ==
  RunComplete /\ FailsToComplete =>
    LET before == IF Programs[lastRunCode].syntaxError THEN <<>>
                  ELSE Called(Programs[lastRunCode].body).msgs
        n == Len(before)
    IN /\ Len(Handled) = n + 2
       /\ SubSeq(Handled, 1, n) = before
       /\ Handled[n + 1].type = "error"
       /\ includes(Handled[n + 1].msg,
                   IF Thrown.message # "" THEN Thrown.message ELSE Thrown.str)
       /\ Handled[n + 2] = Msg("done", "error")

\* C14: when a text is run by hand twice in a row, the second run started
\* after every message of the first was handled, the second run's messages,
\* final status and final output log equal the first's.
C14_RepeatIdentical ==
  RunComplete /\ prev.repeat /\ lastEvent = "run" =>
    /\ recv = prev.recv
    /\ status = prev.status
    /\ output = prev.output

\* C17: the output log is, in arrival order and with nothing dropped or
\* repeated, the sequence of the messages other than done that the host has
\* handled since the log was last emptied by a run trigger on text that is
\* not blank or by Clear, whichever instance sent them and whatever the
\* status is.
C17_LogIsArrivals == output = arrived

\* A message handled after Clear, the status being idle, is in the log
C17_Witness ==
  /\ Len(output) = 1
  /\ status.state = "idle"
  /\ lastEvent = "clear"

\* The message listener handles a done message
HandlesDone == Deliver /\ Head(inflight).type = "done"

\* C20: a done message sets the status to success 'Completed' when its
\* payload is ok and to error 'Error' otherwise, whatever the status was:
\* idle after Clear or a blank trigger, success or error included.
C20_DoneOverwrites ==
  [][HandlesDone =>
       status' = IF Head(inflight).msg = "ok"
                   THEN [state |-> "success", text |-> "Completed"]
                   ELSE [state |-> "error", text |-> "Error"]]_vars

\* A done was handled after Clear had set the status to idle
C20_Witness ==
  /\ lastEvent = "clear"
  /\ output = <<>>
  /\ status.state \in {"success", "error"}

---------------------------------------------------------------------------
(* Claims about triggers and the debounce (Spec) *)

\* The text runCode reads when Ctrl+Enter is pressed
ShortcutText(f) == IF f /\ acItems # <<>> THEN onCommitKey(S).code ELSE code

\* The debounce timer fires and its callback calls runCode
TimerTrigger == DebounceFire /\ code # lastRunCode

\* runCode is called on text that is blank after trimming
BlankTrigger ==
  \/ RunClick /\ ~Starts(code)
  \/ \E f \in BOOLEAN : RunShortcut(f) /\ ~Starts(ShortcutText(f))
  \/ TimerTrigger /\ ~Starts(code)

NothingToRun == [state |-> "idle", text |-> "Nothing to run"]

\* C4: a run trigger on blank text sets the status to idle 'Nothing to run'
\* and leaves the output log, the last-run snapshot and the sandbox as they
\* were; nothing is posted.
C4_BlankTrigger ==
  [][BlankTrigger =>
       /\ status' = NothingToRun
       /\ UNCHANGED <<output, lastRunCode, srcdoc, navigating, docTimers,
                      inflight, emitted>>]_vars

\* A blank trigger after a run whose output is still shown
C4_Witness ==
  /\ status = NothingToRun
  /\ ~Starts(code)
  /\ output # <<>>
  /\ srcdoc # ""

\* The text was last changed by an input event handled with auto-run on
InBurst == lastEvent = "input" /\ armed

\* C5: with auto-run enabled, the timer of a burst of input events fires
\* only when the window has elapsed since the last event, it fires once,
\* and the run it starts runs the text the last event left in the editor.
C5_Debounce ==
  [][DebounceFire /\ InBurst =>
       /\ sinceChange >= DEBOUNCE_MS
       /\ debounceId' = NoTimer
       /\ (Starts(code) /\ code # lastRunCode =>
             /\ lastRunCode' = code
             /\ srcdoc' = sandboxDoc(code)
             /\ navigating')]_vars

\* The run of a burst: started by the timer, of the text of the last event
C5_Witness ==
  /\ InBurst
  /\ lastRun = "timer"
  /\ lastRunCode = code
  /\ debounceId = NoTimer
  /\ navigating

\* C6: the debounce timer starts a run only if auto-run is enabled at the
\* moment it fires.
C6_TimerRunNeedsAutorun == [][TimerTrigger /\ Starts(code) => autorun]_vars

RunState == <<output, status, srcdoc, navigating, lastRunCode, docTimers, inflight>>

\* C7: when the timer fires and the text equals the last-run snapshot,
\* which is the text of the latest run that was started, no run is
\* triggered and output, status and sandbox are unchanged.
C7_NoRedundantRun ==
  [][/\ srcdoc # "" => srcdoc = sandboxDoc(lastRunCode)
     /\ DebounceFire /\ code = lastRunCode => UNCHANGED RunState]_vars

\* The timer of an input event has fired on the text of a manual run
C7_Witness ==
  /\ InBurst
  /\ debounceId = NoTimer
  /\ lastRun = "manual"
  /\ code = lastRunCode
  /\ Starts(code)

\* C8: every change of the editor text while auto-run is enabled restarts
\* the debounce timer, so the timer never starts a run earlier than one
\* window after the latest change.
C8_EveryChangeRestarts ==
  [][/\ code' # code /\ autorun => debounceId' = DEBOUNCE_MS
     /\ TimerTrigger /\ armed => sinceChange >= DEBOUNCE_MS]_vars

\* runCode is called by the button or the shortcut on text that is not blank
ManualRun ==
  \/ RunClick /\ Starts(code)
  \/ \E f \in BOOLEAN : RunShortcut(f) /\ Starts(ShortcutText(f))

\* C9: a manual run on text that is not blank starts a run at once, with or
\* without a timer pending, and records the text it ran as the last-run
\* snapshot; a timer that fires after it with the text unchanged starts no
\* second run.
C9_ManualRun ==
  [][/\ ManualRun =>
          /\ status' = [state |-> "running", text |-> "Running..."]
          /\ lastRunCode' = code'
          /\ srcdoc' = sandboxDoc(code')
          /\ navigating'
          /\ output' = <<>>
          /\ debounceId' = debounceId
     /\ DebounceFire /\ lastEvent = "run" => UNCHANGED RunState]_vars

\* The timer of the last input event is due after a manual run of the text
C9_Witness ==
  /\ lastEvent = "run"
  /\ debounceId = 0
  /\ code = lastRunCode

\* C16: handling a message that is not a done appends exactly one entry to
\* the output log and leaves the status as it is; handling any message
\* leaves the editor text, the last-run snapshot, the debounce timer and
\* the storage as they are.
C16_MessageFrame ==
  [][Deliver =>
       /\ Head(inflight).type # "done" =>
            /\ output' = Append(output, Msg(Head(inflight).type, Head(inflight).msg))
            /\ status' = status
       /\ UNCHANGED <<code, lastRunCode, debounceId, localStorage>>]_vars

\* A message was handled during a run, with a debounce timer pending that
\* an input event before the run had started
C16_Witness ==
  /\ output # <<>>
  /\ status.state = "running"
  /\ lastEvent = "run"
  /\ debounceId # NoTimer
  /\ localStorage[STORAGE_KEY_CODE] = <<code>>

\* The editor text is changed and runCode is not called
EditOnly ==
  \/ \E e \in EditEvents : Input(e)
  \/ ClearClick
  \/ CommitKey
  \/ \E i \in 1..8 : CommitMouse(i)

\* C19: a run trigger on text T that is not blank, whatever the status,
\* empties the output log, sets the status to running, sets the last-run
\* snapshot to T as it is, untrimmed, and sets the sandbox to load the
\* document of T, all in one step; edits after the trigger change neither
\* the snapshot nor the document, and the document the sandbox loads is
\* that of the text at the trigger.
C19_RunRequest ==
  [][/\ ManualRun \/ (TimerTrigger /\ Starts(code)) =>
          /\ output' = <<>>
          /\ status' = [state |-> "running", text |-> "Running..."]
          /\ lastRunCode' = code'
          /\ srcdoc' = sandboxDoc(code')
          /\ navigating'
     /\ EditOnly => UNCHANGED <<lastRunCode, srcdoc, navigating, docTimers>>
     /\ SandboxLoad =>
          LET r == loadDocument(sandboxDoc(lastRunCode))
          IN /\ docTimers' = r.timers
             /\ emitted' = History(Post(r.msgs, "cur", "sync"))]_vars

\* The text was replaced after a trigger on a text with white space around
\* it, before the sandbox has loaded the document
C19_Witness ==
  /\ navigating
  /\ lastRunCode = P_PADDED
  /\ code = P_TOKEN
  /\ lastEvent = "input"
  /\ status.state = "running"

Cleared == [state |-> "idle", text |-> "Cleared"]

\* C22: Clear empties the editor and the output log, sets the status to
\* idle 'Cleared' and removes the persisted text; it leaves the last-run
\* snapshot, the pending debounce timer and the sandbox as they were.  So
\* when the timer fires after Clear on the text of the latest run, typed
\* again, no run is started.
C22_Clear ==
  [][/\ ClearClick =>
          /\ code' = ""
          /\ output' = <<>>
          /\ status' = Cleared
          /\ localStorage'[STORAGE_KEY_CODE] = <<>>
          /\ UNCHANGED <<lastRunCode, debounceId, srcdoc, navigating,
                         docTimers, inflight>>
     /\ DebounceFire /\ status = Cleared /\ srcdoc = sandboxDoc(code) =>
          UNCHANGED RunState]_vars

\* The text of the latest run was typed again after Clear and its timer
\* has fired: nothing has run since Clear
C22_Witness ==
  /\ status = Cleared
  /\ output = <<>>
  /\ lastEvent = "input"
  /\ armed
  /\ debounceId = NoTimer
  /\ Starts(code)
  /\ code = lastRunCode
  /\ srcdoc = sandboxDoc(code)
  /\ localStorage[STORAGE_KEY_CODE] = <<code>>

---------------------------------------------------------------------------
(* Claims about the status line, the storage and a reload (SpecPage) *)

\* runCode is called: by the button, the shortcut or the timer callback
RunTrigger ==
  \/ RunClick
  \/ \E f \in BOOLEAN : RunShortcut(f)
  \/ TimerTrigger

\* C11: the run state (the class of the status line) changes only when a
\* run is triggered or a done message is handled; Clear, Copy, the theme
\* button, other messages, input and autocomplete leave it as it is.  A
\* reload, which starts a new page, is not counted.
C11_RunStateOwned ==
  [][status'.state # status.state => RunTrigger \/ HandlesDone \/ Reload]_vars

---------------------------------------------------------------------------
(* Claims about the suggestion panel (SpecAc) *)

\* The places in the dictionary of the entries that contain the token,
\* case-insensitively
Matching(token) ==
  {i \in 1..Len(JS_SUGGESTIONS) :
     includes(toLowerCase(JS_SUGGESTIONS[i]), toLowerCase(token))}

\* The first min(8, number of matches) matching entries in dictionary order
FirstMatches(token) ==
  LET M == Matching(token)
      n == IF Cardinality(M) < 8 THEN Cardinality(M) ELSE 8
  IN [k \in 1..n |->
        JS_SUGGESTIONS[CHOOSE i \in M : Cardinality({j \in M : j < i}) = k - 1]]

\* The tokens the input events of SpecAc leave before the caret, and the
\* entries to list for each, computed once
InputTokens == {findToken(e.value, e.caret) : e \in AcEvents}

ToList == [k \in InputTokens |-> FirstMatches(k)]

\* C18: on an input event the panel is shown if and only if autocomplete is
\* enabled, the token before the caret has at least 2 characters and some
\* dictionary entry contains it case-insensitively; shown, it lists the
\* first min(8, matches) matching entries in dictionary order; otherwise it
\* is hidden and empty.
C18_PanelOnInput ==
  [][(\E e \in AcEvents : Input(e)) =>
       LET token == findToken(code', selectionStart')
       IN IF acToggle /\ Len(token) >= 2 /\ ToList[token] # <<>>
            THEN acItems' = ToList[token]
            ELSE acItems' = <<>>]_vars

\* The panel lists the first 8 of the 16 entries that contain "ma"
C18_Witness ==
  /\ code = P_MANY
  /\ selectionStart = 2
  /\ Len(acItems) = 8
  /\ acItems[1] = "Math.max"
  /\ acItems[8] = "Math.abs"

\* The panel is shown and exactly one of its items carries the class
ExactlyOneActive ==
  acItems # <<>> => \E i \in 0..(Len(acItems) - 1) : acActive = {i}

\* The index of the active item
Active == CHOOSE i \in acActive : TRUE

\* The text, the caret and the storage
Text == <<code, selectionStart, localStorage>>

\* C23: while the panel is shown exactly one item is active.  Showing it
\* activates item 0; ArrowDown moves the active index to min(n-1, i+1) and
\* ArrowUp to max(0, i-1), both leaving the items and the text; Enter
\* replaces the token before the caret with the active item's value,
\* leaving the text before the token and after the caret, puts the caret
\* after the value, persists the new text and hides the panel; Escape hides
\* the panel and leaves the text.
C23_PanelNavigation ==
  /\ []ExactlyOneActive
  /\ [][/\ (\E e \in AcEvents : Input(e)) /\ acItems' # <<>> => acActive' = {0}
        /\ NavKey("ArrowDown") =>
             /\ acActive' = {Min(Len(acItems) - 1, Active + 1)}
             /\ UNCHANGED <<acItems, Text>>
        /\ NavKey("ArrowUp") =>
             /\ acActive' = {Max(0, Active - 1)}
             /\ UNCHANGED <<acItems, Text>>
        /\ CommitKey =>
             LET token == findToken(code, selectionStart)
                 before == SubSeq(code, 1, selectionStart - Len(token))
                 after == SubSeq(code, selectionStart + 1, Len(code))
                 value == acItems[Active + 1]
             IN /\ code' = before \o value \o after
                /\ selectionStart' = Len(before) + Len(value)
                /\ localStorage' =
                     [localStorage EXCEPT ![STORAGE_KEY_CODE] = <<code'>>]
                /\ acItems' = <<>>
        /\ NavKey("Escape") => acItems' = <<>> /\ UNCHANGED Text]_vars

\* The panel lists 8 items and ArrowDown has moved the class from item 0
\* to the last one
C23_Witness ==
  /\ code = P_MANY
  /\ Len(acItems) = 8
  /\ acActive = {7}
  /\ localStorage[STORAGE_KEY_CODE] = <<code>>

---------------------------------------------------------------------------
(* Claims about what follows when the user stops (SpecLive) *)

\* The text was last changed by typing or by a commit, with auto-run on
\* then and now, and it is not blank
LastChangeArmed ==
  /\ autorun
  /\ armed
  /\ lastEvent \in {"input", "commit"}
  /\ Starts(code)

\* C21: if from some moment on the user does nothing, auto-run is enabled
\* and the last change of the text, by typing or by a commit, left a text
\* that is not blank, then the last-run snapshot eventually equals the text
\* and stays equal to it.
C21_EventuallyRuns ==
  <>[][~UserAction]_vars /\ <>[]LastChangeArmed => <>[](lastRunCode = code)

====
